---- MODULE Spec2Model ----
(***************************************************************************)
(* A model of the UICP parser and tools packages: block extraction from    *)
(* streamed text, validation against a Definitions document, rendering,    *)
(* reassembly into text/component segments, the two definitions caches,    *)
(* and the React hosts (UICPContent, useUICPParser) that load and parse.   *)
(*                                                                         *)
(* Text is a sequence of lexical tokens.  "F" is the fence (three          *)
(* backticks), "U" the word uicp, "n" a newline, "s" a blank, "t" and "A", *)
(* "B" visible characters, "P0".."P5" the placeholder words                *)
(* __UICP_BLOCK_<i>__, and "{", "}", ",", "q" (a double quote), "5" (a     *)
(* number literal) and the keys "uid:", "data:", "title:", "variant:" (a   *)
(* quoted member name with its colon) the JSON lexemes.                    *)
(***************************************************************************)
EXTENDS Integers, Sequences, FiniteSets, TLC

VARIABLES
  content,      \* the message text received so far (message.content)
  pending,      \* the rest of the output item being streamed
  nItems,       \* how many output items the model has written
  definitions,  \* the Definitions document the application is configured with
  registry,     \* the component registry: the uids with a registered renderer
  parsed,       \* UICPContent's state `parsed`: the last parseUICPContentSync result
  apc,          \* parseUICPContent: "idle", "loading" (awaiting Promise.all), "done"
  aLoads,       \* the loadComponent calls in flight
  aParsed,      \* what parseUICPContent returned (or that it rejected)
  now,          \* Date.now()
  parserCache,  \* definitionsCache of definitions-loader.ts
  toolsCache,   \* cache of the tools package
  source,       \* the version of the document each source locator now yields
  inflight,     \* the loadDefinitions calls awaited, in the order they started
  call,         \* what the caller of a cached read saw last
  vBlock,       \* the block an application validates by itself
  vResults,     \* what its validateUICPBlock calls returned, in order
  host,         \* which React host is mounted: "UICPContent", "useUICPParser", "none"
  config,       \* its definitions prop (config.definitions): a locator or an object
  isLoading,    \* its state isLoading
  error,        \* its state error: whether an Error is set
  defsState,    \* the hook's state `definitions`
  effects       \* the runs of its effect, in the order they started

vars == <<content, pending, nItems, definitions, registry, parsed, apc, aLoads,
          aParsed, now, parserCache, toolsCache, source, inflight, call,
          vBlock, vResults, host, config, isLoading, error, defsState, effects>>

parseVars == <<content, pending, nItems, definitions, registry, parsed, apc,
               aLoads, aParsed>>
cacheVars == <<now, parserCache, toolsCache, source, inflight, call>>

validateVars == <<vBlock, vResults>>

uiVars == <<host, config, isLoading, error, defsState, effects>>

-----------------------------------------------------------------------------
(* Bounds *)

MaxItems == 2
MaxTime == 2
MaxInflight == 2
MaxCalls == 2
MaxEffects == 3

-----------------------------------------------------------------------------
(* Strings *)

Min(S) == CHOOSE x \in S : \A y \in S : x <= y
Max(S) == CHOOSE x \in S : \A y \in S : x >= y

\* \s of the regular expressions, and the white space of trim()/trimEnd()
IsSpace(c) == c \in {"s", "n"}

OpeningMarker == <<"F", "U">>

PlaceholderTokens == <<"P0", "P1", "P2", "P3", "P4", "P5">>

\* `__UICP_BLOCK_${blocks.length}__`
PlaceholderId(n) == PlaceholderTokens[n + 1]

IsPlaceholder(c) == \E i \in 1..Len(PlaceholderTokens) : PlaceholderTokens[i] = c

\* parseInt(placeholderMatch[1], 10)
PlaceholderIndex(c) ==
  (CHOOSE i \in 1..Len(PlaceholderTokens) : PlaceholderTokens[i] = c) - 1

\* String.prototype.indexOf, 1-based; 0 when there is no occurrence
IndexOf(hay, needle) ==
  LET at == {i \in 1..(Len(hay) - Len(needle) + 1) :
               hay[i] = needle[1] /\ SubSeq(hay, i, i + Len(needle) - 1) = needle}
  IN IF at = {} THEN 0 ELSE Min(at)

\* String.prototype.replace(string, string): the first occurrence only
ReplaceFirst(hay, needle, rep) ==
  LET i == IndexOf(hay, needle)
  IN IF i = 0 THEN hay
     ELSE SubSeq(hay, 1, i - 1) \o rep \o SubSeq(hay, i + Len(needle), Len(hay))

TrimEnd(str) ==
  LET keep == {i \in 1..Len(str) : ~IsSpace(str[i])}
  IN IF keep = {} THEN <<>> ELSE SubSeq(str, 1, Max(keep))

TrimStart(str) ==
  LET keep == {i \in 1..Len(str) : ~IsSpace(str[i])}
  IN IF keep = {} THEN <<>> ELSE SubSeq(str, Min(keep), Len(str))

Trim(str) == TrimStart(TrimEnd(str))

\* /```uicp/.test(content)
hasUICPBlocks(str) == IndexOf(str, OpeningMarker) # 0

-----------------------------------------------------------------------------
(* JSON values: k is the kind, s the characters of a string (or the        *)
(* literal of a number), m the members of an object in order.  The only    *)
(* array is the empty one.                                                 *)

Undefined == [k |-> "undef", s |-> <<>>, m |-> <<>>]
Str(chars) == [k |-> "str", s |-> chars, m |-> <<>>]
Num(lit) == [k |-> "num", s |-> <<lit>>, m |-> <<>>]
Obj(members) == [k |-> "obj", s |-> <<>>, m |-> members]
Null == [k |-> "null", s |-> <<>>, m |-> <<>>]
Arr == [k |-> "arr", s |-> <<>>, m |-> <<>>]
Member(key, val) == [key |-> key, val |-> val]

Keys == {"uid", "data", "title", "variant", "constructor"}

\* the member names every object inherits from Object.prototype
ObjectPrototypeKeys == {"constructor"}

KeyToken(key) ==
  CASE key = "uid" -> "uid:"
    [] key = "data" -> "data:"
    [] key = "title" -> "title:"
    [] key = "variant" -> "variant:"
    [] key = "constructor" -> "constructor:"

TokenKey(tok) == CHOOSE key \in Keys : KeyToken(key) = tok

IsKeyToken(tok) == \E key \in Keys : KeyToken(key) = tok

\* an own member of that name
Own(val, key) == \E i \in 1..Len(val.m) : val.m[i].key = key

\* key in obj: an own member or one inherited from Object.prototype
HasKey(val, key) == Own(val, key) \/ key \in ObjectPrototypeKeys

\* obj[key]: the last member of that name wins, undefined when there is none
Get(val, key) ==
  IF val.k = "obj" /\ Own(val, key)
  THEN val.m[Max({i \in 1..Len(val.m) : val.m[i].key = key})].val
  ELSE Undefined

\* JavaScript truthiness of a value as tested by &&
Truthy(val) ==
  CASE val.k = "undef" -> FALSE
    [] val.k = "null" -> FALSE
    [] val.k = "str" -> val.s # <<>>
    [] val.k = "num" -> val.s # <<"0">>
    [] OTHER -> TRUE

RECURSIVE Stringify(_)
RECURSIVE StringifyMembers(_, _)

\* JSON.stringify(value, null, 2): one member per line (the indentation that
\* follows each line break is left out; it is white space like the break)
Stringify(val) ==
  CASE val.k = "str" -> <<"q">> \o val.s \o <<"q">>
    [] val.k = "num" -> val.s
    [] val.k = "null" -> <<"N">>
    [] val.k = "arr" -> <<"[]">>
    [] val.k = "obj" ->
         IF val.m = <<>> THEN <<"{", "}">>
         ELSE <<"{", "n">> \o StringifyMembers(val.m, 1) \o <<"n", "}">>

StringifyMembers(members, i) ==
  LET one == <<KeyToken(members[i].key)>> \o Stringify(members[i].val)
  IN IF i = Len(members) THEN one
     ELSE one \o <<",", "n">> \o StringifyMembers(members, i + 1)

SkipSpace(toks, i) ==
  LET stop == {j \in i..Len(toks) : ~IsSpace(toks[j])}
  IN IF stop = {} THEN Len(toks) + 1 ELSE Min(stop)

Fail == [ok |-> FALSE, val |-> Undefined, pos |-> 0]
Ok(val, pos) == [ok |-> TRUE, val |-> val, pos |-> pos]

\* a string literal from the quote at i: up to the next quote, with no raw
\* line break inside
ParseString(toks, i) ==
  LET close == {j \in (i + 1)..Len(toks) : toks[j] = "q"}
  IN IF close = {} THEN Fail
     ELSE LET j == Min(close)
              chars == SubSeq(toks, i + 1, j - 1)
          IN IF \E c \in 1..Len(chars) : chars[c] = "n" THEN Fail
             ELSE Ok(Str(chars), j + 1)

\* the literals that are one word: numbers, null ("N") and the empty array
LiteralTokens == {"5", "0", "N", "[]"}

Literal(tok) ==
  CASE tok = "N" -> Null
    [] tok = "[]" -> Arr
    [] OTHER -> Num(tok)

RECURSIVE ParseValue(_, _)
RECURSIVE ParseMembers(_, _, _)

ParseValue(toks, i) ==
  LET j == SkipSpace(toks, i)
  IN IF j > Len(toks) THEN Fail
     ELSE CASE toks[j] = "q" -> ParseString(toks, j)
            [] toks[j] \in LiteralTokens -> Ok(Literal(toks[j]), j + 1)
            [] toks[j] = "{" ->
                 LET k == SkipSpace(toks, j + 1)
                 IN IF k <= Len(toks) /\ toks[k] = "}" THEN Ok(Obj(<<>>), k + 1)
                    ELSE ParseMembers(toks, k, <<>>)
            [] OTHER -> Fail

\* the members of an object from its first key at i, up to the closing brace
ParseMembers(toks, i, acc) ==
  LET j == SkipSpace(toks, i)
  IN IF j > Len(toks) \/ ~IsKeyToken(toks[j]) THEN Fail
     ELSE LET v == ParseValue(toks, j + 1)
          IN IF ~v.ok THEN Fail
             ELSE LET k == SkipSpace(toks, v.pos)
                      acc2 == Append(acc, Member(TokenKey(toks[j]), v.val))
                  IN IF k > Len(toks) THEN Fail
                     ELSE CASE toks[k] = "}" -> Ok(Obj(acc2), k + 1)
                            [] toks[k] = "," -> ParseMembers(toks, k + 1, acc2)
                            [] OTHER -> Fail

\* JSON.parse(text): ok is FALSE where JSON.parse throws a SyntaxError
JSONparse(toks) ==
  LET r == ParseValue(toks, 1)
  IN IF r.ok /\ SkipSpace(toks, r.pos) > Len(toks) THEN r ELSE Fail

-----------------------------------------------------------------------------
(* parser.ts: extractUICPBlocks *)

NoMatch == [found |-> FALSE, index |-> 0, last |-> 0, capture |-> <<>>]

\* a variant in which the capture is greedy: it runs up to the last fence
MatchAtGreedy(str, i) ==
  IF ~(i + 1 <= Len(str) /\ str[i] = "F" /\ str[i + 1] = "U") THEN NoMatch
  ELSE LET run == SkipSpace(str, i + 2)
           breaks == {j \in (i + 2)..(run - 1) : str[j] = "n"}
           fences == {j \in run..Len(str) : str[j] = "F"}
       IN IF breaks = {} \/ fences = {} THEN NoMatch
          ELSE [found |-> TRUE, index |-> i, last |-> Max(fences),
                capture |-> SubSeq(str, Max(breaks) + 1, Max(fences) - 1)]

\* whether /```uicp\s*\n([\s\S]*?)```/ matches at position i, and how: after
\* the marker a run of white space holding a line break, then everything up
\* to the first fence.  \s* is greedy, so the capture starts after the last
\* line break of the run.
MatchAt(str, i) ==
  IF ~(i + 1 <= Len(str) /\ str[i] = "F" /\ str[i + 1] = "U") THEN NoMatch
  ELSE LET run == SkipSpace(str, i + 2)
           breaks == {j \in (i + 2)..(run - 1) : str[j] = "n"}
           fences == {j \in run..Len(str) : str[j] = "F"}
       IN IF breaks = {} \/ fences = {} THEN NoMatch
          ELSE [found |-> TRUE, index |-> i, last |-> Min(fences),
                capture |-> SubSeq(str, Max(breaks) + 1, Min(fences) - 1)]

\* uicpRegex.exec(content) with lastIndex = from (1-based): the leftmost match
RegexExec(str, from) ==
  LET at == {i \in from..Len(str) : str[i] = "F" /\ MatchAt(str, i).found}
  IN IF at = {} THEN NoMatch ELSE MatchAt(str, Min(at))

\* parsed.uid && parsed.data
AcceptsPayload(val) == Truthy(Get(val, "uid")) /\ Truthy(Get(val, "data"))

\* the block pushed for a parsed payload
BlockOf(val) == [uid |-> Get(val, "uid"), data |-> Get(val, "data")]

RECURSIVE ExtractLoop(_, _, _, _)

\* the while loop over the complete regions
ExtractLoop(str, from, blocks, cwp) ==
  LET m == RegexExec(str, from)
  IN IF ~m.found THEN [blocks |-> blocks, contentWithPlaceholders |-> cwp]
     ELSE LET json == JSONparse(Trim(m.capture))
              match0 == SubSeq(str, m.index, m.last)
          IN IF json.ok /\ AcceptsPayload(json.val)
             THEN ExtractLoop(str, m.last + 1, Append(blocks, BlockOf(json.val)),
                              ReplaceFirst(cwp, match0, <<PlaceholderId(Len(blocks))>>))
             ELSE ExtractLoop(str, m.last + 1, blocks, cwp)

\* a variant that cuts at the marker and keeps the white space before it
TruncateNoTrim(cwp) ==
  LET i == IndexOf(cwp, OpeningMarker)
  IN IF i # 0 THEN SubSeq(cwp, 1, i - 1) ELSE cwp

\* a variant that takes any fence for the start of an incomplete block
TruncateAtFence(cwp) ==
  LET i == IndexOf(cwp, <<"F">>)
  IN IF i # 0 THEN TrimEnd(SubSeq(cwp, 1, i - 1)) ELSE cwp

\* the check for an incomplete block: cut at the first opening marker left
TruncateIncomplete(cwp) ==
  LET i == IndexOf(cwp, OpeningMarker)
  IN IF i # 0 THEN TrimEnd(SubSeq(cwp, 1, i - 1)) ELSE cwp

extractUICPBlocks(str) ==
  LET done == ExtractLoop(str, 1, <<>>, str)
  IN [blocks |-> done.blocks,
      contentWithPlaceholders |-> TruncateIncomplete(done.contentWithPlaceholders)]

-----------------------------------------------------------------------------
(* Definitions documents (types.ts of the tools package) *)

Input(key, type, required, enum) ==
  [key |-> key, type |-> type, required |-> required, enum |-> enum]

Component(uid, path, inputs) ==
  [uid |-> uid, componentPath |-> path, inputs |-> inputs]

\* a variant that finds the last component of the uid
FindLastComponent(defs, uid) ==
  LET at == {i \in 1..Len(defs.components) :
               uid.k = "str" /\ defs.components[i].uid = uid.s}
  IN IF at = {} THEN 0 ELSE Max(at)

\* definitions.components.find((c) => c.uid === uid): the first one, 0 if none
FindComponent(defs, uid) ==
  LET at == {i \in 1..Len(defs.components) :
               uid.k = "str" /\ defs.components[i].uid = uid.s}
  IN IF at = {} THEN 0 ELSE Min(at)

\* the position of a declared input, 0 if undeclared
FindInput(component, key) ==
  LET at == {i \in 1..Len(component.inputs) : component.inputs[i].key = key}
  IN IF at = {} THEN 0 ELSE Min(at)

\* what component.inputs[key] yields for an undeclared key that
\* Object.prototype defines: a truthy value with no type and no enum
Inherited(key) == Input(key, "undefined", FALSE, <<>>)

\* whether component.inputs[key] is truthy
HasSchema(component, key) ==
  FindInput(component, key) # 0 \/ key \in ObjectPrototypeKeys

\* component.inputs[key]
Schema(component, key) ==
  IF FindInput(component, key) # 0
  THEN component.inputs[FindInput(component, key)]
  ELSE Inherited(key)

-----------------------------------------------------------------------------
(* validator.ts: validateUICPBlock *)

Error(kind, key) == [err |-> kind, key |-> key]

Validation(raised, errors) ==
  [raised |-> raised, valid |-> ~raised /\ errors = <<>>, errors |-> errors]

\* Array.isArray(value) ? 'array' : typeof value
TypeOf(val) ==
  CASE val.k = "str" -> "string"
    [] val.k = "num" -> "number"
    [] val.k = "obj" -> "object"
    [] val.k = "null" -> "object"
    [] val.k = "arr" -> "array"
    [] OTHER -> "undefined"

RECURSIVE RequiredErrors(_, _, _)

\* the forEach over Object.entries(component.inputs)
RequiredErrors(component, data, i) ==
  IF i > Len(component.inputs) THEN <<>>
  ELSE LET schema == component.inputs[i]
       IN (IF schema.required /\ ~HasKey(data, schema.key)
           THEN <<Error("missing", schema.key)>> ELSE <<>>)
          \o RequiredErrors(component, data, i + 1)

\* Object.entries(block.data) of a mapping, each own key once
Entries(data) ==
  IF data.k # "obj" THEN <<>>
  ELSE LET firsts == {i \in 1..Len(data.m) :
                        \A j \in 1..(i - 1) : data.m[j].key # data.m[i].key}
           Nth[n \in 1..Cardinality(firsts)] ==
             CHOOSE i \in firsts : Cardinality({j \in firsts : j <= i}) = n
       IN [n \in 1..Cardinality(firsts) |->
             Member(data.m[Nth[n]].key, Get(data, data.m[Nth[n]].key))]

RECURSIVE EntryErrors(_, _, _)

\* the forEach over Object.entries(block.data)
EntryErrors(component, entries, i) ==
  IF i > Len(entries) THEN <<>>
  ELSE LET value == entries[i].val
           rest == EntryErrors(component, entries, i + 1)
       IN IF ~HasSchema(component, entries[i].key) THEN rest
          ELSE LET schema == Schema(component, entries[i].key)
               IN (IF schema.enum # <<>>
                      /\ ~\E e \in 1..Len(schema.enum) : Str(schema.enum[e]) = value
                   THEN <<Error("enum", entries[i].key)>> ELSE <<>>)
                  \o (IF schema.type # TypeOf(value) /\ value.k \notin {"null", "undef"}
                      THEN <<Error("type", entries[i].key)>> ELSE <<>>)
                  \o rest

\* `key in block.data` throws a TypeError when data is a primitive, and
\* Object.entries(block.data) throws one when data is null or undefined
InThrows(component, data) ==
  \/ data.k \in {"null", "undef"}
  \/ /\ data.k \notin {"obj", "arr"}
     /\ \E i \in 1..Len(component.inputs) : component.inputs[i].required

\* a variant that type-checks the data of a block whose uid is unknown
validateUnknownChecked(block, defs) ==
  LET at == FindComponent(defs, block.uid)
  IN IF at = 0
     THEN Validation(FALSE,
            <<Error("unknown", "uid")>>
            \o (IF block.data.k # "obj" THEN <<Error("type", "data")>> ELSE <<>>))
     ELSE LET component == defs.components[at]
          IN IF InThrows(component, block.data) THEN Validation(TRUE, <<>>)
             ELSE Validation(FALSE,
                    RequiredErrors(component, block.data, 1)
                    \o EntryErrors(component, Entries(block.data), 1))

\* a variant that keeps its error list from one call to the next
validateAccumulating(block, defs) ==
  LET at == FindComponent(defs, block.uid)
      kept == IF vResults = <<>> THEN <<>> ELSE vResults[Len(vResults)].errors
  IN IF at = 0 THEN Validation(FALSE, kept \o <<Error("unknown", "uid")>>)
     ELSE LET component == defs.components[at]
          IN IF InThrows(component, block.data) THEN Validation(TRUE, <<>>)
             ELSE Validation(FALSE,
                    kept \o RequiredErrors(component, block.data, 1)
                    \o EntryErrors(component, Entries(block.data), 1))

validateUICPBlock(block, defs) ==
  LET at == FindComponent(defs, block.uid)
  IN IF at = 0 THEN Validation(FALSE, <<Error("unknown", "uid")>>)
     ELSE LET component == defs.components[at]
          IN IF InThrows(component, block.data) THEN Validation(TRUE, <<>>)
             ELSE Validation(FALSE,
                    RequiredErrors(component, block.data, 1)
                    \o EntryErrors(component, Entries(block.data), 1))

-----------------------------------------------------------------------------
(* loader.ts (the component registry) *)

\* getComponent(uid): whether a renderer is registered under uid
getComponent(reg, uid) == uid.k = "str" /\ uid.s \in reg

-----------------------------------------------------------------------------
(* parser.ts: renderUICPBlock and the reassembly of the parse functions *)

NoArtifact == [art |-> "none", uid |-> Undefined, errors |-> <<>>, props |-> Undefined]

\* the red "Invalid UICP Component" box listing the errors
InvalidArtifact(block, errors) ==
  [art |-> "invalid", uid |-> block.uid, errors |-> errors, props |-> Undefined]

\* the yellow "Component Not Available" box
MissingArtifact(block) ==
  [art |-> "missing", uid |-> block.uid, errors |-> <<>>, props |-> Undefined]

\* React.createElement(Component, { key, ...block.data })
ComponentArtifact(block) ==
  [art |-> "component", uid |-> block.uid, errors |-> <<>>, props |-> block.data]

Rendered(raised, artifact) == [raised |-> raised, artifact |-> artifact]

\* a variant that looks for the renderer before it validates
RenderRegistryFirst(block, defs, reg) ==
  LET v == validateUICPBlock(block, defs)
  IN IF v.raised THEN Rendered(TRUE, NoArtifact)
     ELSE IF ~getComponent(reg, block.uid) THEN Rendered(FALSE, MissingArtifact(block))
     ELSE IF ~v.valid THEN Rendered(FALSE, InvalidArtifact(block, v.errors))
     ELSE Rendered(FALSE, ComponentArtifact(block))

renderUICPBlock(block, defs, reg) ==
  LET v == validateUICPBlock(block, defs)
  IN IF v.raised THEN Rendered(TRUE, NoArtifact)
     ELSE IF ~v.valid THEN Rendered(FALSE, InvalidArtifact(block, v.errors))
     ELSE IF ~getComponent(reg, block.uid) THEN Rendered(FALSE, MissingArtifact(block))
     ELSE Rendered(FALSE, ComponentArtifact(block))

Key(kind, n) == [kind |-> kind, n |-> n]

TextSegment(text, n) ==
  [type |-> "text", key |-> Key("text", n), text |-> text, artifact |-> NoArtifact]

ComponentSegment(artifact, n) ==
  [type |-> "component", key |-> Key("component", n), text |-> <<>>,
   artifact |-> artifact]

Result(raised, segs) == [raised |-> raised, segs |-> segs]

RECURSIVE Split(_)

\* contentWithPlaceholders.split(/(__UICP_BLOCK_\d+__)/): the texts between
\* the placeholders (empty ones included) and the placeholders, alternating
Split(str) ==
  LET at == {i \in 1..Len(str) : IsPlaceholder(str[i])}
  IN IF at = {} THEN <<str>>
     ELSE <<SubSeq(str, 1, Min(at) - 1), <<str[Min(at)]>>>>
          \o Split(SubSeq(str, Min(at) + 1, Len(str)))

\* part.match(/__UICP_BLOCK_(\d+)__/)
PlaceholderMatch(part) == \E i \in 1..Len(part) : IsPlaceholder(part[i])

RECURSIVE Reassemble(_, _, _, _, _, _)

\* parts.forEach((part, index) => ...), index counted from 0
Reassemble(parts, i, blocks, defs, reg, acc) ==
  IF i > Len(parts) THEN Result(FALSE, acc)
  ELSE LET part == parts[i]
       IN IF PlaceholderMatch(part)
          THEN LET blockIndex ==
                     PlaceholderIndex(part[Min({j \in 1..Len(part) : IsPlaceholder(part[j])})])
               IN IF blockIndex + 1 <= Len(blocks)
                  THEN LET r == renderUICPBlock(blocks[blockIndex + 1], defs, reg)
                       IN IF r.raised THEN Result(TRUE, <<>>)
                          ELSE Reassemble(parts, i + 1, blocks, defs, reg,
                                 Append(acc, ComponentSegment(r.artifact, blockIndex)))
                  ELSE Reassemble(parts, i + 1, blocks, defs, reg, acc)
          ELSE IF Trim(part) # <<>>
               THEN Reassemble(parts, i + 1, blocks, defs, reg,
                      Append(acc, TextSegment(part, i - 1)))
               ELSE Reassemble(parts, i + 1, blocks, defs, reg, acc)

\* if (blocks.length === 0) return [{ type: 'text', content, key: 'text-0' }]
WholeText(str) == Result(FALSE, <<TextSegment(str, 0)>>)

parseUICPContentSync(str, defs, reg) ==
  LET x == extractUICPBlocks(str)
  IN IF Len(x.blocks) = 0 THEN WholeText(str)
     ELSE Reassemble(Split(x.contentWithPlaceholders), 1, x.blocks, defs, reg, <<>>)

\* a variant that loads for every block with a definition, registered or not
NeedsLoadKnown(blocks, defs, reg) ==
  {i \in 1..Len(blocks) : FindComponent(defs, blocks[i].uid) # 0}

\* the blocks of parseUICPContent that trigger loadComponent: those whose uid
\* has a ComponentDefinition and no registered renderer (as block indices)
NeedsLoad(blocks, defs, reg) ==
  {i \in 1..Len(blocks) :
     FindComponent(defs, blocks[i].uid) # 0 /\ ~getComponent(reg, blocks[i].uid)}

\* loadComponent(block.uid, componentDef.componentPath, basePath) as block i
\* triggers it; live while the parseUICPContent call that made it awaits it
LoadOf(blocks, defs, i) ==
  [block |-> i, uid |-> blocks[i].uid.s,
   path |-> defs.components[FindComponent(defs, blocks[i].uid)].componentPath,
   live |-> TRUE]

\* a variant that renders with no renderer registered
parseUICPContentTailUnloaded(str, defs, reg) ==
  LET x == extractUICPBlocks(str)
  IN Reassemble(Split(x.contentWithPlaceholders), 1, x.blocks, defs, {}, <<>>)

\* what parseUICPContent returns once Promise.all has resolved
parseUICPContentTail(str, defs, reg) ==
  LET x == extractUICPBlocks(str)
  IN Reassemble(Split(x.contentWithPlaceholders), 1, x.blocks, defs, reg, <<>>)

-----------------------------------------------------------------------------
(* tools package: createUIComponent *)

Created(success, block) == [success |-> success, uicp_block |-> block]

\* '```uicp\n' + JSON.stringify(uicpBlock, null, 2) + '\n```'
FormatBlock(params) ==
  <<"F", "U", "n">>
  \o Stringify(Obj(<<Member("uid", params.uid), Member("data", params.data)>>))
  \o <<"n", "F">>

RECURSIVE MissingFields(_, _, _)

\* the forEach that collects missingFields
MissingFields(component, data, i) ==
  IF i > Len(component.inputs) THEN <<>>
  ELSE (IF component.inputs[i].required /\ ~HasKey(data, component.inputs[i].key)
        THEN <<component.inputs[i].key>> ELSE <<>>)
       \o MissingFields(component, data, i + 1)

createUIComponent(defs, params) ==
  LET at == FindComponent(defs, params.uid)
  IN IF at = 0 THEN Created(FALSE, <<>>)
     ELSE IF MissingFields(defs.components[at], params.data, 1) # <<>>
          THEN Created(FALSE, <<>>)
          ELSE Created(TRUE, FormatBlock(params))

-----------------------------------------------------------------------------
(* The inputs: the Definitions document, tool parameters, hand-written     *)
(* blocks                                                                  *)

UidA == <<"A">>
UidB == <<"B">>

\* the application's definitions.json: title is required, variant is one of
\* an enumeration; a second component repeats the uid
Definitions ==
  [version |-> "1",
   components |->
     <<Component(UidA, "a",
         <<Input("title", "string", TRUE, <<>>),
           Input("variant", "string", FALSE, <<<<"t">>>>)>>),
       Component(UidA, "a2", <<Input("title", "number", FALSE, <<>>)>>)>>]

Params(uid, data) == [uid |-> Str(uid), data |-> data]

Title(val) == Obj(<<Member("title", val)>>)

\* what the language model may pass to the create_ui_component tool
ParamsSet ==
  {Params(UidA, Obj(<<>>)), Params(UidB, Obj(<<>>)),
   Params(UidA, Title(Str(<<"t">>))), Params(UidA, Title(Str(<<"F">>))),
   Params(UidA, Title(Num("5")))}

\* payloads the language model may write between the markers by itself:
\* no data member, a data that is a string, a uid that is not defined
HandPayloads ==
  {<<"{", "uid:", "q", "A", "q", "}">>,
   <<"{", "uid:", "q", "A", "q", ",", "data:", "q", "t", "q", "}">>,
   <<"{", "uid:", "q", "B", "q", ",", "data:", "{", "}", "}">>}

\* no block: the application validates nothing by itself
NoBlock == [uid |-> Undefined, data |-> Undefined]

\* the values an application may pass as a field of data, with no member
TitleValues == {Str(<<"t">>), Num("5"), Null, Arr}
VariantValues == {Str(<<"t">>), Str(<<"A">>), Num("5")}
ExtraValues == {Str(<<"t">>)}

\* the members of one name a data may hold: none, or one with a value
Field(key, values) == {<<>>} \cup {<<Member(key, v)>> : v \in values}

\* the blocks an application may pass to validateUICPBlock
Blocks ==
  {[uid |-> Str(uid), data |-> data] :
     uid \in {UidA, UidB},
     data \in {Obj(t \o v \o x) : t \in Field("title", TitleValues),
                                  v \in Field("variant", VariantValues),
                                  x \in Field("constructor", ExtraValues)}
             \cup {Str(<<"t">>), Num("5"), Arr, Null}}

\* the words the language model may write outside a block
TextTokens == {"t", "s", "F", "U", "P0"}

\* what message.content may hold when the answer starts to stream
InitialContents == {<<>>, <<"t", "s">>}

-----------------------------------------------------------------------------
(* The two definitions caches (definitions-loader.ts and the tools cache)  *)

\* the source locators used as cache keys: the empty string and a path
SourceKeys == {"", "k1"}
Ttls == {1, 2}

\* the locators whose document is replaced while the program runs
ChangingKeys == {"k1"}

\* the versions of a definitions document a source may yield
Versions == {1, 2}

NoEntry == [has |-> FALSE, data |-> 0, timestamp |-> 0]
Entry(data, timestamp) == [has |-> TRUE, data |-> data, timestamp |-> timestamp]

\* what the caller of a cached read saw last: a hit with the data returned,
\* a miss (the caller awaits the load; with the ttl it passed and the age of
\* the entry it found), and when the awaited load completes the loaded data
\* (return data) or the load's error (the await throws)
LoadError == 0 - 1
NoAge == 0 - 1

\* a loadDefinitions(key) call awaited by a cached read of one of the caches
Load(cache, key) == [cache |-> cache, key |-> key]
NoLoad == Load("none", "")

NoCall ==
  [made |-> FALSE, hit |-> FALSE, data |-> 0, ttl |-> 0, age |-> 0, of |-> NoLoad]
Hit(data) ==
  [made |-> TRUE, hit |-> TRUE, data |-> data, ttl |-> 0, age |-> 0, of |-> NoLoad]
Miss(entry, t, ttl) ==
  [made |-> TRUE, hit |-> FALSE, data |-> 0, ttl |-> ttl,
   age |-> IF entry.has THEN t - entry.timestamp ELSE NoAge, of |-> NoLoad]
Loaded(data) ==
  [made |-> TRUE, hit |-> FALSE, data |-> data, ttl |-> 0, age |-> 0, of |-> NoLoad]
Failed(load) ==
  [made |-> TRUE, hit |-> FALSE, data |-> LoadError, ttl |-> 0, age |-> 0,
   of |-> load]

\* a variant in which an entry never expires
ParserHitNoExpiry(entry, t, ttl) == entry.has

\* loadDefinitionsWithCache: cached && Date.now() - cached.timestamp < ttl
ParserHit(entry, t, ttl) == entry.has /\ t - entry.timestamp < ttl

\* getCached: the entry is served unless now - entry.timestamp > ttl
ToolsHit(entry, t, ttl) == entry.has /\ ~(t - entry.timestamp > ttl)

Remove(seq, i) == SubSeq(seq, 1, i - 1) \o SubSeq(seq, i + 1, Len(seq))

\* the values of the definitions prop (config.definitions of the hook): a
\* source locator, or a Definitions object held in memory
StringSource(key) == [kind |-> "string", key |-> key]
ObjectSource == [kind |-> "object", key |-> ""]
ConfigValues == {StringSource("k1"), ObjectSource}

\* what a loadDefinitionsWithCache call returned: nothing yet, or a version
\* of the document (every version declares the same components)
NoData == [has |-> FALSE, version |-> 0]
Data(version) == [has |-> TRUE, version |-> version]

\* the Definitions object of an ObjectSource, as the hook's state
ObjectData == Data(0)

-----------------------------------------------------------------------------
(* The state machine.  The language model's answer is streamed into        *)
(* message.content token by token and the host parses the content anew at  *)
(* every change; the caches are read and filled as time passes.            *)

NoResult == Result(FALSE, <<>>)

\* the host's call of parseUICPContentSync(content, definitions)
Render(str) == parseUICPContentSync(str, definitions, registry)

Receive(toks) ==
  /\ content' = content \o toks
  /\ parsed' = Render(content \o toks)
  /\ apc' = "idle"
  /\ aParsed' = NoResult

\* the language model writes one word of plain text
WriteText(tok) ==
  /\ pending = <<>> /\ nItems < MaxItems /\ apc # "loading"
  /\ Receive(<<tok>>)
  /\ nItems' = nItems + 1
  /\ UNCHANGED <<pending, definitions, registry, aLoads>>
  /\ UNCHANGED cacheVars
  /\ UNCHANGED validateVars
  /\ UNCHANGED uiVars

\* the language model calls the create_ui_component tool and puts the
\* uicp_block it returns into its answer
WriteCreatedBlock(params) ==
  /\ pending = <<>> /\ nItems < MaxItems /\ apc # "loading"
  /\ createUIComponent(definitions, params).success
  /\ pending' = createUIComponent(definitions, params).uicp_block
  /\ nItems' = nItems + 1
  /\ UNCHANGED <<content, parsed, apc, aParsed, definitions, registry, aLoads>>
  /\ UNCHANGED cacheVars
  /\ UNCHANGED validateVars
  /\ UNCHANGED uiVars

\* the language model writes a fenced uicp region by itself
WriteHandBlock(payload) ==
  /\ pending = <<>> /\ nItems < MaxItems /\ apc # "loading"
  /\ pending' = <<"F", "U", "n">> \o payload \o <<"n", "F">>
  /\ nItems' = nItems + 1
  /\ UNCHANGED <<content, parsed, apc, aParsed, definitions, registry, aLoads>>
  /\ UNCHANGED cacheVars
  /\ UNCHANGED validateVars
  /\ UNCHANGED uiVars

\* a variant in which the host's parse starts the load of every renderer the
\* new content needs
StreamTokenLoading ==
  /\ pending # <<>> /\ apc # "loading"
  /\ Receive(<<Head(pending)>>)
  /\ pending' = Tail(pending)
  /\ LET blocks == extractUICPBlocks(content \o <<Head(pending)>>).blocks
     IN aLoads' = aLoads \cup
          {LoadOf(blocks, definitions, i) :
             i \in NeedsLoad(blocks, definitions, registry)}
  /\ UNCHANGED <<nItems, definitions, registry>>
  /\ UNCHANGED cacheVars
  /\ UNCHANGED validateVars
  /\ UNCHANGED uiVars

\* the next token of the item being streamed arrives
StreamToken ==
  /\ pending # <<>> /\ apc # "loading"
  /\ Receive(<<Head(pending)>>)
  /\ pending' = Tail(pending)
  /\ UNCHANGED <<nItems, definitions, registry, aLoads>>
  /\ UNCHANGED cacheVars
  /\ UNCHANGED validateVars
  /\ UNCHANGED uiVars

\* registerComponent(uid, component), as the application does for its own
\* component before any message is shown
registerComponent(uid) ==
  /\ uid \notin registry /\ content \in InitialContents /\ nItems = 0
  /\ registry' = registry \cup {uid}
  /\ UNCHANGED <<content, pending, nItems, definitions, parsed, apc, aLoads, aParsed>>
  /\ UNCHANGED cacheVars
  /\ UNCHANGED validateVars
  /\ UNCHANGED uiVars

\* parseUICPContent(content, { definitions }) up to its Promise.all: the
\* definitions are in memory, the blocks are extracted, the loads are started
parseUICPContentStart ==
  /\ apc = "idle" /\ pending = <<>>
  /\ LET x == extractUICPBlocks(content)
     IN IF Len(x.blocks) = 0
        THEN /\ apc' = "done"
             /\ aParsed' = WholeText(content)
             /\ aLoads' = aLoads
        ELSE /\ apc' = "loading"
             /\ aParsed' = NoResult
             /\ aLoads' = aLoads \cup
                  {LoadOf(x.blocks, definitions, i) :
                     i \in NeedsLoad(x.blocks, definitions, registry)}
  /\ UNCHANGED <<content, pending, nItems, definitions, registry, parsed>>
  /\ UNCHANGED cacheVars
  /\ UNCHANGED validateVars
  /\ UNCHANGED uiVars

\* one loadComponent call resolves: the renderer is registered under its uid
loadComponentResolve(load) ==
  /\ load \in aLoads
  /\ aLoads' = aLoads \ {load}
  /\ registry' = registry \cup {load.uid}
  /\ UNCHANGED <<content, pending, nItems, definitions, parsed, apc, aParsed>>
  /\ UNCHANGED cacheVars
  /\ UNCHANGED validateVars
  /\ UNCHANGED uiVars

\* one loadComponent call rejects: Promise.all rejects and parseUICPContent
\* with it; the other loads stay in flight, awaited by nobody
loadComponentReject(load) ==
  /\ load \in aLoads
  /\ IF load.live
     THEN /\ apc' = "done"
          /\ aParsed' = Result(TRUE, <<>>)
          /\ aLoads' = {[l EXCEPT !.live = FALSE] : l \in aLoads \ {load}}
     ELSE /\ aLoads' = aLoads \ {load}
          /\ UNCHANGED <<apc, aParsed>>
  /\ UNCHANGED <<content, pending, nItems, definitions, registry, parsed>>
  /\ UNCHANGED cacheVars
  /\ UNCHANGED validateVars
  /\ UNCHANGED uiVars

\* every load of the call has resolved: the parts are reassembled and
\* returned
parseUICPContentFinish ==
  /\ apc = "loading" /\ \A l \in aLoads : ~l.live
  /\ apc' = "done"
  /\ aParsed' = parseUICPContentTail(content, definitions, registry)
  /\ UNCHANGED <<content, pending, nItems, definitions, registry, parsed, aLoads>>
  /\ UNCHANGED cacheVars
  /\ UNCHANGED validateVars
  /\ UNCHANGED uiVars

InitProgram ==
  /\ content \in InitialContents
  /\ pending = <<>>
  /\ nItems = 0
  /\ definitions = Definitions
  /\ registry = {}
  /\ parsed = parseUICPContentSync(content, definitions, {})
  /\ apc = "idle"
  /\ aLoads = {}
  /\ aParsed = NoResult
  /\ now = 0
  /\ parserCache = [k \in SourceKeys |-> NoEntry]
  /\ toolsCache = [k \in SourceKeys |-> NoEntry]
  /\ source = [k \in SourceKeys |-> 1]
  /\ inflight = <<>>
  /\ call = NoCall
  /\ vResults = <<>>
  /\ host = "none"
  /\ config = ObjectSource
  /\ isLoading = FALSE
  /\ error = FALSE
  /\ defsState = NoData
  /\ effects = <<>>

Init == InitProgram /\ vBlock = NoBlock

Next ==
  \/ \E tok \in TextTokens : WriteText(tok)
  \/ \E params \in ParamsSet : WriteCreatedBlock(params)
  \/ \E payload \in HandPayloads : WriteHandBlock(payload)
  \/ StreamToken
  \/ registerComponent(UidA)
  \/ parseUICPContentStart
  \/ \E load \in aLoads : loadComponentResolve(load)
  \/ \E load \in aLoads : loadComponentReject(load)
  \/ parseUICPContentFinish

Spec == Init /\ [][Next]_vars

-----------------------------------------------------------------------------
(* The caches as a state machine *)

\* Date.now() advances
Tick ==
  /\ now < MaxTime
  /\ now' = now + 1
  /\ UNCHANGED <<parserCache, toolsCache, source, inflight, call>>
  /\ UNCHANGED parseVars
  /\ UNCHANGED validateVars
  /\ UNCHANGED uiVars

\* the document behind a source locator is replaced by a newer version
SourceChange(key, version) ==
  /\ source[key] < version
  /\ source' = [source EXCEPT ![key] = version]
  /\ UNCHANGED <<now, parserCache, toolsCache, inflight, call>>
  /\ UNCHANGED parseVars
  /\ UNCHANGED validateVars
  /\ UNCHANGED uiVars

\* a variant in which a read that misses joins a load of its key in flight
loadDefinitionsWithCacheCoalesced(key, ttl) ==
  /\ IF ParserHit(parserCache[key], now, ttl)
     THEN /\ call' = Hit(parserCache[key].data)
          /\ inflight' = inflight
     ELSE /\ call' = Miss(parserCache[key], now, ttl)
          /\ IF \E i \in 1..Len(inflight) : inflight[i] = Load("parser", key)
             THEN inflight' = inflight
             ELSE /\ Len(inflight) < MaxInflight
                  /\ inflight' = Append(inflight, Load("parser", key))
  /\ UNCHANGED <<now, parserCache, toolsCache, source>>
  /\ UNCHANGED parseVars
  /\ UNCHANGED validateVars
  /\ UNCHANGED uiVars

\* loadDefinitionsWithCache(key, ttl) up to its await: the entry is returned,
\* or loadDefinitions(key) is started
loadDefinitionsWithCache(key, ttl) ==
  /\ IF ParserHit(parserCache[key], now, ttl)
     THEN /\ call' = Hit(parserCache[key].data)
          /\ inflight' = inflight
     ELSE /\ Len(inflight) < MaxInflight
          /\ call' = Miss(parserCache[key], now, ttl)
          /\ inflight' = Append(inflight, Load("parser", key))
  /\ UNCHANGED <<now, parserCache, toolsCache, source>>
  /\ UNCHANGED parseVars
  /\ UNCHANGED validateVars
  /\ UNCHANGED uiVars

\* getCached(key, ttl) as getUIComponents and createUIComponent call it,
\* followed on a miss by the start of loadDefinitions(key)
getCached(key, ttl) ==
  /\ IF ToolsHit(toolsCache[key], now, ttl)
     THEN /\ call' = Hit(toolsCache[key].data)
          /\ inflight' = inflight
          /\ toolsCache' = toolsCache
     ELSE /\ Len(inflight) < MaxInflight
          /\ call' = Miss(toolsCache[key], now, ttl)
          /\ inflight' = Append(inflight, Load("tools", key))
          /\ toolsCache' = [toolsCache EXCEPT ![key] = NoEntry]
  /\ UNCHANGED <<now, parserCache, source>>
  /\ UNCHANGED parseVars
  /\ UNCHANGED validateVars
  /\ UNCHANGED uiVars

\* an awaited loadDefinitions resolves: definitionsCache.set(source, { data,
\* timestamp: Date.now() }), or setCached(uri, data) in the tools package
LoadSucceeds(i) ==
  /\ i \in 1..Len(inflight)
  /\ LET key == inflight[i].key
     IN IF inflight[i].cache = "parser"
        THEN /\ parserCache' = [parserCache EXCEPT ![key] = Entry(source[key], now)]
             /\ toolsCache' = toolsCache
        ELSE /\ toolsCache' = [toolsCache EXCEPT ![key] = Entry(source[key], now)]
             /\ parserCache' = parserCache
  /\ inflight' = Remove(inflight, i)
  /\ call' = Loaded(source[inflight[i].key])
  /\ UNCHANGED <<now, source>>
  /\ UNCHANGED parseVars
  /\ UNCHANGED validateVars
  /\ UNCHANGED uiVars

\* a variant in which a failed load drops the entry of its key
LoadFailsDropsEntry(i) ==
  /\ i \in 1..Len(inflight)
  /\ inflight' = Remove(inflight, i)
  /\ call' = Failed(inflight[i])
  /\ IF inflight[i].cache = "parser"
     THEN /\ parserCache' = [parserCache EXCEPT ![inflight[i].key] = NoEntry]
          /\ toolsCache' = toolsCache
     ELSE /\ toolsCache' = [toolsCache EXCEPT ![inflight[i].key] = NoEntry]
          /\ parserCache' = parserCache
  /\ UNCHANGED <<now, source>>
  /\ UNCHANGED parseVars
  /\ UNCHANGED validateVars
  /\ UNCHANGED uiVars

\* an awaited loadDefinitions rejects: the error goes to the caller, nothing
\* is stored
LoadFails(i) ==
  /\ i \in 1..Len(inflight)
  /\ inflight' = Remove(inflight, i)
  /\ call' = Failed(inflight[i])
  /\ UNCHANGED <<now, parserCache, toolsCache, source>>
  /\ UNCHANGED parseVars
  /\ UNCHANGED validateVars
  /\ UNCHANGED uiVars

\* what clear(key) leaves of a cache: `if (key)` takes the empty string for
\* an omitted key
Cleared(cache, key) ==
  IF key # "" THEN [cache EXCEPT ![key] = NoEntry]
  ELSE [k \in SourceKeys |-> NoEntry]

\* clearDefinitionsCache(key)
clearDefinitionsCache(key) ==
  /\ Cleared(parserCache, key) # parserCache
  /\ parserCache' = Cleared(parserCache, key)
  /\ UNCHANGED <<now, toolsCache, source, inflight, call>>
  /\ UNCHANGED parseVars
  /\ UNCHANGED validateVars
  /\ UNCHANGED uiVars

\* clearDefinitionsCache()
clearDefinitionsCacheAll ==
  /\ \E k \in SourceKeys : parserCache[k].has
  /\ parserCache' = [k \in SourceKeys |-> NoEntry]
  /\ UNCHANGED <<now, toolsCache, source, inflight, call>>
  /\ UNCHANGED parseVars
  /\ UNCHANGED validateVars
  /\ UNCHANGED uiVars

\* clearCache(key)
clearCache(key) ==
  /\ Cleared(toolsCache, key) # toolsCache
  /\ toolsCache' = Cleared(toolsCache, key)
  /\ UNCHANGED <<now, parserCache, source, inflight, call>>
  /\ UNCHANGED parseVars
  /\ UNCHANGED validateVars
  /\ UNCHANGED uiVars

\* clearCache()
clearCacheAll ==
  /\ \E k \in SourceKeys : toolsCache[k].has
  /\ toolsCache' = [k \in SourceKeys |-> NoEntry]
  /\ UNCHANGED <<now, parserCache, source, inflight, call>>
  /\ UNCHANGED parseVars
  /\ UNCHANGED validateVars
  /\ UNCHANGED uiVars

NextCache ==
  \/ Tick
  \/ \E key \in ChangingKeys, version \in Versions : SourceChange(key, version)
  \/ \E key \in SourceKeys, ttl \in Ttls : loadDefinitionsWithCache(key, ttl)
  \/ \E key \in SourceKeys, ttl \in Ttls : getCached(key, ttl)
  \/ \E i \in 1..MaxInflight : LoadSucceeds(i)
  \/ \E i \in 1..MaxInflight : LoadFails(i)
  \/ \E key \in SourceKeys : clearDefinitionsCache(key)
  \/ clearDefinitionsCacheAll
  \/ \E key \in SourceKeys : clearCache(key)
  \/ clearCacheAll

InitCache == Init /\ content = <<>>

SpecCache == InitCache /\ [][NextCache]_vars

-----------------------------------------------------------------------------
(* An application that validates a block by itself *)

\* validateUICPBlock(vBlock, definitions) is called once more
validate ==
  /\ Len(vResults) < MaxCalls
  /\ vResults' = Append(vResults, validateUICPBlock(vBlock, definitions))
  /\ UNCHANGED vBlock
  /\ UNCHANGED parseVars
  /\ UNCHANGED cacheVars
  /\ UNCHANGED uiVars

NextValidate == validate

InitValidate == InitProgram /\ content = <<>> /\ vBlock \in Blocks

SpecValidate == InitValidate /\ [][NextValidate]_vars

-----------------------------------------------------------------------------
(* react-components.tsx and react-hook.ts: a mounted UICPContent or        *)
(* useUICPParser, its props changing while the definitions load            *)

\* DEFAULT_CACHE_TTL, in the unit of `now`
DEFAULT_CACHE_TTL == 2

\* one run of the effect: the props it closed over, its `mounted` flag,
\* whether it awaits loadDefinitions, and what its cached read returned
Effect(c, d, awaiting, returned) ==
  [content |-> c, source |-> d, mounted |-> TRUE, awaiting |-> awaiting,
   returned |-> returned]

\* return () => { mounted = false }
Cleanup(effs) == [i \in 1..Len(effs) |-> [effs[i] EXCEPT !.mounted = FALSE]]

\* the contents a host passes to UICPContent: plain text, a valid block of a
\* defined uid, a block whose data is a string
ContentProps ==
  {<<"t">>,
   createUIComponent(Definitions, Params(UidA, Title(Str(<<"t">>)))).uicp_block,
   <<"F", "U", "n", "{", "uid:", "q", "A", "q", ",", "data:", "q", "t", "q", "}",
     "n", "F">>}

\* what the effects leave alone
hostFrame ==
  <<host, pending, nItems, definitions, registry, apc, aLoads, aParsed, now,
    toolsCache, source, inflight, call, vBlock, vResults>>

\* setParsed, setError and, in finally, setIsLoading, as the effect of
\* UICPContent calls them with the result of its parse; err is the error
\* state the calls start from
Shown(result, e, failed, err) ==
  /\ parsed' = IF failed \/ result.raised THEN WholeText(e.content) ELSE result
  /\ error' = IF failed \/ result.raised THEN TRUE ELSE err
  /\ isLoading' = FALSE
  /\ UNCHANGED defsState

\* what the effect of UICPContent does after it has the definitions, or in
\* its catch block when the load failed
Settle(e, failed, err) ==
  Shown(parseUICPContentSync(e.content, definitions, registry), e, failed, err)

\* UICPContent is rendered with the props (content, definitions), for the
\* first time or with a changed prop: the previous effect is cleaned up and
\* the effect runs up to its await
UICPContent(c, d) ==
  /\ host = "UICPContent" /\ Len(effects) < MaxEffects
  /\ IF effects = <<>> THEN c = content /\ d = config
     ELSE effects[Len(effects)].mounted /\ <<c, d>> # <<content, config>>
  /\ content' = c /\ config' = d
  /\ LET hit == d.kind = "string"
                /\ ParserHit(parserCache[d.key], now, DEFAULT_CACHE_TTL)
     IN IF ~hasUICPBlocks(c)
        THEN /\ parsed' = WholeText(c)
             /\ effects' = Append(Cleanup(effects), Effect(c, d, FALSE, NoData))
             /\ UNCHANGED <<isLoading, error, defsState>>
        ELSE IF d.kind = "object" \/ hit
        THEN /\ Settle(Effect(c, d, FALSE, NoData), FALSE, FALSE)
             /\ effects' = Append(Cleanup(effects),
                  Effect(c, d, FALSE,
                         IF hit THEN Data(parserCache[d.key].data) ELSE NoData))
        ELSE /\ isLoading' = TRUE
             /\ error' = FALSE
             /\ effects' = Append(Cleanup(effects), Effect(c, d, TRUE, NoData))
             /\ UNCHANGED <<parsed, defsState>>
  /\ UNCHANGED parserCache
  /\ UNCHANGED hostFrame

\* useUICPParser is rendered with config.definitions, for the first time or
\* with another value: the effect runs up to its await
useUICPParser(d) ==
  /\ host = "useUICPParser" /\ Len(effects) < MaxEffects
  /\ IF effects = <<>> THEN d = config
     ELSE effects[Len(effects)].mounted /\ d # config
  /\ config' = d
  /\ LET hit == d.kind = "string"
                /\ ParserHit(parserCache[d.key], now, DEFAULT_CACHE_TTL)
         data == IF hit THEN Data(parserCache[d.key].data) ELSE ObjectData
     IN IF d.kind = "object" \/ hit
        THEN /\ defsState' = data
             /\ error' = FALSE
             /\ isLoading' = FALSE
             /\ effects' = Append(Cleanup(effects), Effect(<<>>, d, FALSE, data))
        ELSE /\ isLoading' = TRUE
             /\ effects' = Append(Cleanup(effects), Effect(<<>>, d, TRUE, NoData))
             /\ UNCHANGED <<defsState, error>>
  /\ UNCHANGED <<content, parsed, parserCache>>
  /\ UNCHANGED hostFrame

\* the host is unmounted: the effect is cleaned up
Unmount ==
  /\ effects # <<>> /\ effects[Len(effects)].mounted
  /\ effects' = Cleanup(effects)
  /\ UNCHANGED <<content, config, parsed, isLoading, error, defsState, parserCache>>
  /\ UNCHANGED hostFrame

\* a variant in which the effect does not look at its `mounted` flag
DefinitionsLoadedUnguarded(i) ==
  /\ i \in 1..Len(effects) /\ effects[i].awaiting
  /\ LET e == effects[i]
         key == e.source.key
     IN /\ parserCache' = [parserCache EXCEPT ![key] = Entry(source[key], now)]
        /\ effects' = [effects EXCEPT ![i].awaiting = FALSE,
                                       ![i].returned = Data(source[key])]
        /\ IF host = "UICPContent" THEN Settle(e, FALSE, error)
           ELSE /\ defsState' = Data(source[key])
                /\ error' = FALSE
                /\ isLoading' = FALSE
                /\ UNCHANGED parsed
  /\ UNCHANGED <<content, config>>
  /\ UNCHANGED hostFrame

\* the loadDefinitions call an effect awaits resolves: the cache entry is
\* written, and the effect goes on if it is still mounted
DefinitionsLoaded(i) ==
  /\ i \in 1..Len(effects) /\ effects[i].awaiting
  /\ LET e == effects[i]
         key == e.source.key
     IN /\ parserCache' = [parserCache EXCEPT ![key] = Entry(source[key], now)]
        /\ effects' = [effects EXCEPT ![i].awaiting = FALSE,
                                       ![i].returned = Data(source[key])]
        /\ IF ~e.mounted THEN UNCHANGED <<parsed, error, isLoading, defsState>>
           ELSE IF host = "UICPContent" THEN Settle(e, FALSE, error)
           ELSE /\ defsState' = Data(source[key])
                /\ error' = FALSE
                /\ isLoading' = FALSE
                /\ UNCHANGED parsed
  /\ UNCHANGED <<content, config>>
  /\ UNCHANGED hostFrame

\* the loadDefinitions call an effect awaits rejects: nothing is stored, and
\* the effect's catch block runs if it is still mounted
DefinitionsFailed(i) ==
  /\ i \in 1..Len(effects) /\ effects[i].awaiting
  /\ effects' = [effects EXCEPT ![i].awaiting = FALSE]
  /\ IF ~effects[i].mounted THEN UNCHANGED <<parsed, error, isLoading, defsState>>
     ELSE IF host = "UICPContent" THEN Settle(effects[i], TRUE, error)
     ELSE /\ error' = TRUE
          /\ isLoading' = FALSE
          /\ UNCHANGED <<parsed, defsState>>
  /\ UNCHANGED <<content, config, parserCache>>
  /\ UNCHANGED hostFrame

\* the host after its first render, before its effect has run: useState([]),
\* useState(false) in UICPContent, useState(true) in the hook
InitContent ==
  /\ host \in {"UICPContent", "useUICPParser"}
  /\ content \in (IF host = "UICPContent" THEN ContentProps ELSE {<<>>})
  /\ config \in ConfigValues
  /\ isLoading = (host = "useUICPParser")
  /\ error = FALSE
  /\ defsState = NoData
  /\ effects = <<>>
  /\ parsed = NoResult
  /\ registry \in {{}, {UidA}}
  /\ pending = <<>>
  /\ nItems = 0
  /\ definitions = Definitions
  /\ apc = "idle"
  /\ aLoads = {}
  /\ aParsed = NoResult
  /\ now = 0
  /\ parserCache = [k \in SourceKeys |-> NoEntry]
  /\ toolsCache = [k \in SourceKeys |-> NoEntry]
  /\ source = [k \in SourceKeys |-> 1]
  /\ inflight = <<>>
  /\ call = NoCall
  /\ vBlock = NoBlock
  /\ vResults = <<>>

NextContent ==
  \/ \E c \in ContentProps, d \in ConfigValues : UICPContent(c, d)
  \/ \E d \in ConfigValues : useUICPParser(d)
  \/ Unmount
  \/ \E i \in 1..MaxEffects : DefinitionsLoaded(i)
  \/ \E i \in 1..MaxEffects : DefinitionsFailed(i)
  \/ Tick
  \/ \E key \in ChangingKeys, version \in Versions : SourceChange(key, version)

SpecContent == InitContent /\ [][NextContent]_vars

\* an awaited loadDefinitions call settles: the step of DefinitionsLoaded or
\* DefinitionsFailed, told by what it does to `effects`
LoadSettles ==
  \E i \in 1..MaxEffects :
    /\ i <= Len(effects) /\ effects[i].awaiting
    /\ effects' \in
         {[effects EXCEPT ![i].awaiting = FALSE, ![i].returned = r] :
            r \in {NoData, Data(source[effects[i].source.key])}}

\* every loadDefinitions call settles: fetch and readFile end, with the
\* document or with an error
FairSpecContent == SpecContent /\ WF_effects(LoadSettles)

-----------------------------------------------------------------------------
(* Properties of the parse pipeline (checked under Spec) *)

Extracted == extractUICPBlocks(content)

\* the text segments of a result hold no opening marker
NoMarkerInText(res) ==
  \A i \in 1..Len(res.segs) :
    res.segs[i].type = "text" => ~hasUICPBlocks(res.segs[i].text)

RECURSIVE Regions(_, _)

\* the complete fenced regions of a text in order: the raw text of each and
\* whether its payload is accepted as a block
Regions(str, from) ==
  LET m == RegexExec(str, from)
      json == JSONparse(Trim(m.capture))
  IN IF ~m.found THEN <<>>
     ELSE <<[raw |-> SubSeq(str, m.index, m.last),
             accepted |-> json.ok /\ AcceptsPayload(json.val)]>>
          \o Regions(str, m.last + 1)

\* C1: no text segment returned by parseUICPContentSync or parseUICPContent
\* contains the opening marker, whatever the text is
C1_NoMarkerShown == NoMarkerInText(parsed) /\ NoMarkerInText(aParsed)

C3_MalformedLeftInPlace ==
  LET regions == Regions(content, 1)
  IN \A i \in 1..Len(regions) :
       ~regions[i].accepted =>
         IndexOf(Extracted.contentWithPlaceholders, regions[i].raw) # 0

\* C4: a parse never raises, and a document with something to show is never
\* rendered as an empty sequence
C4_NoFatalFailure ==
  /\ ~parsed.raised
  /\ Trim(content) # <<>> => parsed.segs # <<>>

\* C5: a block made by createUIComponent and streamed whole is extracted as
\* exactly one block with the data it was made from, and its component
\* segment is populated with that data
C5_RoundTrip ==
  \A head \in InitialContents, params \in ParamsSet :
    LET made == createUIComponent(definitions, params)
    IN (made.success /\ pending = <<>> /\ content = head \o made.uicp_block) =>
         /\ Extracted.blocks = <<[uid |-> params.uid, data |-> params.data]>>
         /\ \E i \in 1..Len(parsed.segs) :
              /\ parsed.segs[i].type = "component"
              /\ parsed.segs[i].artifact.art = "component" =>
                   parsed.segs[i].artifact.props = params.data

AcceptedRaw(str) ==
  LET regions == Regions(str, 1)
      F[i \in 0..Len(regions)] ==
        IF i = 0 THEN <<>>
        ELSE IF regions[i].accepted THEN Append(F[i - 1], regions[i].raw)
        ELSE F[i - 1]
  IN F[Len(regions)]

Visible(str) ==
  LET F[i \in 0..Len(str)] ==
        IF i = 0 THEN <<>>
        ELSE IF IsSpace(str[i]) THEN F[i - 1] ELSE Append(F[i - 1], str[i])
  IN F[Len(str)]

\* a result written back as text: each component segment as the raw region
\* of its block, each text segment as its text
Flatten(res, str) ==
  LET raw == AcceptedRaw(str)
      F[i \in 0..Len(res.segs)] ==
        IF i = 0 THEN <<>>
        ELSE IF res.segs[i].type = "text" THEN F[i - 1] \o res.segs[i].text
        ELSE F[i - 1] \o raw[res.segs[i].key.n + 1]
  IN F[Len(res.segs)]

InDocumentOrder(res, str) ==
  /\ \A i, j \in 1..Len(res.segs) :
       (i < j /\ res.segs[i].type = "component" /\ res.segs[j].type = "component")
         => res.segs[i].key.n < res.segs[j].key.n
  /\ LET flat == Visible(Flatten(res, str))
         doc == Visible(str)
     IN Len(flat) <= Len(doc) /\ flat = SubSeq(doc, 1, Len(flat))

\* C7: the segments follow the document: the component segments come in
\* increasing block index, and the segments read as the document read, each
\* block in the place of its region
C7_DocumentOrder == ~parsed.raised => InDocumentOrder(parsed, content)

\* the artifact renderUICPBlock must choose for a block
Decided(block, reg) ==
  LET v == validateUICPBlock(block, definitions)
  IN IF ~v.valid THEN InvalidArtifact(block, v.errors)
     ELSE IF block.uid.s \notin reg THEN MissingArtifact(block)
     ELSE ComponentArtifact(block)

RenderedAsDecided(res, str, reg) ==
  \A i \in 1..Len(res.segs) :
    res.segs[i].type = "component" =>
      res.segs[i].artifact =
        Decided(extractUICPBlocks(str).blocks[res.segs[i].key.n + 1], reg)

\* C8: every component segment a parse returns is the error artifact with the
\* full error list if validation fails (registered renderer or not), else the
\* missing-renderer artifact if no renderer is registered, else the renderer
\* populated with block.data
C8_RenderDecision ==
  [][/\ (content' # content /\ ~parsed'.raised)
          => RenderedAsDecided(parsed', content', registry')
     /\ (apc = "loading" /\ apc' = "done" /\ ~aParsed'.raised)
          => RenderedAsDecided(aParsed', content', registry')]_vars

\* C8 witness: an invalid block is shown as the error artifact although a
\* renderer is registered for its uid
C8_Witness ==
  \E i \in 1..Len(parsed.segs) :
    /\ parsed.segs[i].artifact.art = "invalid"
    /\ parsed.segs[i].artifact.errors # <<>>
    /\ parsed.segs[i].artifact.uid.s \in registry

-----------------------------------------------------------------------------
(* Properties of the caches (checked under SpecCache) *)

\* C9: both caches serve an entry exactly when its age is below the ttl
C9_SameDecision ==
  [][\A key \in SourceKeys, ttl \in Ttls :
       /\ (loadDefinitionsWithCache(key, ttl) /\ parserCache[key].has)
            => (call'.hit <=> now - parserCache[key].timestamp < ttl)
       /\ (getCached(key, ttl) /\ toolsCache[key].has)
            => (call'.hit <=> now - toolsCache[key].timestamp < ttl)]_vars

\* C10: a cached read of the parser finds an entry younger than ttl and
\* returns its data without a load; it finds one older than ttl and starts a
\* load; a load that succeeds stores what it loaded with the time of its
\* completion
C10_TtlExpiry ==
  [][/\ \A key \in SourceKeys, ttl \in Ttls :
          (loadDefinitionsWithCache(key, ttl) /\ parserCache[key].has) =>
            /\ now - parserCache[key].timestamp < ttl =>
                 /\ call' = Hit(parserCache[key].data)
                 /\ inflight' = inflight
                 /\ parserCache' = parserCache
            /\ now - parserCache[key].timestamp > ttl =>
                 /\ call' = Miss(parserCache[key], now, ttl)
                 /\ inflight' = Append(inflight, Load("parser", key))
     /\ \A i \in 1..Len(inflight) :
          (LoadSucceeds(i) /\ inflight[i].cache = "parser") =>
            parserCache'[inflight[i].key] = Entry(source[inflight[i].key], now)]_vars

\* C10 witness: a read found an entry older than the ttl it passed and
\* started a load, which is in flight while the old entry is still stored
C10_Witness ==
  \E key \in SourceKeys :
    /\ parserCache[key].has
    /\ call.made /\ ~call.hit /\ call.age > call.ttl /\ call.ttl > 0
    /\ now - parserCache[key].timestamp = call.age
    /\ inflight = <<Load("parser", key)>>

\* C11: clearing with a string key removes that key's entry and no other,
\* clearing without a key removes every entry, in both caches
C11_ClearExactly ==
  [][/\ \A key \in SourceKeys :
          /\ clearDefinitionsCache(key)
               => parserCache' = [parserCache EXCEPT ![key] = NoEntry]
          /\ clearCache(key)
               => toolsCache' = [toolsCache EXCEPT ![key] = NoEntry]
     /\ clearDefinitionsCacheAll => \A k \in SourceKeys : ~parserCache'[k].has
     /\ clearCacheAll => \A k \in SourceKeys : ~toolsCache'[k].has]_vars

\* C12: a read of the parser cache that misses starts exactly one load and
\* changes no entry; when that load fails the caller gets the error, no load
\* is started in its place and every entry is as it was
C12_LoadFailure ==
  [][/\ \A key \in SourceKeys, ttl \in Ttls :
          loadDefinitionsWithCache(key, ttl) =>
            /\ parserCache' = parserCache
            /\ Len(inflight') <= Len(inflight) + 1
     /\ \A i \in 1..Len(inflight) :
          (LoadFails(i) /\ inflight[i].cache = "parser") =>
            /\ call' = Failed(inflight[i])
            /\ parserCache' = parserCache
            /\ inflight' = Remove(inflight, i)]_vars

\* C12 witness: the load of a read has failed, no load is in flight, and the
\* entry stored for its key before the read is still there with its timestamp
C12_Witness ==
  \E key \in SourceKeys :
    /\ call = Failed(Load("parser", key))
    /\ inflight = <<>>
    /\ parserCache[key].has
    /\ now - parserCache[key].timestamp >= 2

\* C13: a read of the parser cache that misses starts a load of its own,
\* also when a load of the same key is in flight
C13_NoCoalescing ==
  [][\A key \in SourceKeys, ttl \in Ttls :
       (loadDefinitionsWithCache(key, ttl)
          /\ ~ParserHit(parserCache[key], now, ttl))
         => inflight' = Append(inflight, Load("parser", key))]_vars

\* C13 witness: two loads of one key are in flight for the parser cache
C13_Witness ==
  \E key \in SourceKeys :
    inflight = <<Load("parser", key), Load("parser", key)>>

-----------------------------------------------------------------------------
(* Properties of the validator (checked under SpecValidate) *)

\* no component of the definitions has the uid of the block
UnknownUid(block, defs) ==
  \A j \in 1..Len(defs.components) : Str(defs.components[j].uid) # block.uid

\* C14: a block whose uid matches no component is invalid with exactly one
\* error, the unknown-identifier error, whatever its data is
C14_UnknownUid ==
  UnknownUid(vBlock, definitions) =>
    \A i \in 1..Len(vResults) :
      vResults[i] =
        [raised |-> FALSE, valid |-> FALSE, errors |-> <<Error("unknown", "uid")>>]

\* C14 witness: a block of unknown uid whose data is no mapping was validated
C14_Witness ==
  /\ vResults # <<>>
  /\ UnknownUid(vBlock, definitions)
  /\ vBlock.data.k # "obj"

\* the first component of the uid
FirstOf(defs, uid) ==
  CHOOSE j \in 1..Len(defs.components) :
    /\ Str(defs.components[j].uid) = uid
    /\ \A h \in 1..(j - 1) : Str(defs.components[h].uid) # uid

\* the errors the specification asks for: one for each required declared
\* field the data lacks, then for each field of the data that is declared an
\* enum error if its value is no member and a type error if its value is not
\* null and not of the declared type
ExpectedErrors(component, data) ==
  LET Missing[i \in 0..Len(component.inputs)] ==
        IF i = 0 THEN <<>>
        ELSE IF component.inputs[i].required
                /\ ~\E h \in 1..Len(data.m) : data.m[h].key = component.inputs[i].key
             THEN Append(Missing[i - 1], Error("missing", component.inputs[i].key))
             ELSE Missing[i - 1]
      Declared(key) ==
        {i \in 1..Len(component.inputs) : component.inputs[i].key = key}
      Wrong[h \in 0..Len(data.m)] ==
        IF h = 0 THEN <<>>
        ELSE IF Declared(data.m[h].key) = {} THEN Wrong[h - 1]
        ELSE LET schema == component.inputs[CHOOSE i \in Declared(data.m[h].key) : TRUE]
                 value == data.m[h].val
             IN Wrong[h - 1]
                \o (IF schema.enum # <<>>
                       /\ \A e \in 1..Len(schema.enum) : Str(schema.enum[e]) # value
                    THEN <<Error("enum", data.m[h].key)>> ELSE <<>>)
                \o (IF value.k # "null" /\ schema.type # TypeOf(value)
                    THEN <<Error("type", data.m[h].key)>> ELSE <<>>)
  IN Missing[Len(component.inputs)] \o Wrong[Len(data.m)]

\* C15: for a block of known uid whose data is a mapping, the validator
\* returns every applicable error and no other, and valid exactly when there
\* is none
C15_AllErrors ==
  (~UnknownUid(vBlock, definitions) /\ vBlock.data.k = "obj") =>
    \A i \in 1..Len(vResults) :
      LET expected ==
            ExpectedErrors(definitions.components[FirstOf(definitions, vBlock.uid)],
                           vBlock.data)
      IN vResults[i] =
           [raised |-> FALSE, valid |-> expected = <<>>, errors |-> expected]

-----------------------------------------------------------------------------
(* Further properties of the parse pipeline (checked under Spec) *)

\* the definitions with, of the components of the uid, only the first
OnlyFirst(defs, uid) ==
  [defs EXCEPT !.components = <<defs.components[FirstOf(defs, uid)]>>]

\* C16: with two components of one uid every lookup takes the first: a load
\* asks for the first one's componentPath, a block is shown as invalid
\* exactly when the first one's inputs reject it, and createUIComponent
\* succeeds exactly when the first one's required fields are there
C16_FirstOccurrence ==
  /\ \A l \in aLoads :
       l.path = definitions.components[FirstOf(definitions, Str(l.uid))].componentPath
  /\ ~parsed.raised =>
       \A i \in 1..Len(parsed.segs) :
         LET b == Extracted.blocks[parsed.segs[i].key.n + 1]
             v == validateUICPBlock(b, OnlyFirst(definitions, b.uid))
         IN (parsed.segs[i].type = "component" /\ ~UnknownUid(b, definitions)) =>
              /\ parsed.segs[i].artifact.art = "invalid" <=> ~v.valid
              /\ ~v.valid => parsed.segs[i].artifact.errors = v.errors
  /\ \A params \in ParamsSet :
       ~UnknownUid(params, definitions) =>
         createUIComponent(definitions, params).success
           = createUIComponent(OnlyFirst(definitions, params.uid), params).success

\* C16 witness: a block that the first component of its uid accepts and the
\* second rejects is shown as valid, and its load asks for the first path
C16_Witness ==
  /\ \E l \in aLoads :
       /\ l.path = definitions.components[1].componentPath
       /\ definitions.components[2].uid = l.uid
  /\ \E i \in 1..Len(parsed.segs) :
       /\ parsed.segs[i].type = "component"
       /\ parsed.segs[i].artifact.art = "missing"
       /\ ~validateUICPBlock(Extracted.blocks[parsed.segs[i].key.n + 1],
             [definitions EXCEPT !.components = <<definitions.components[2]>>]).valid

\* C18: every block extracted has a string for uid and a mapping for data
C18_BlocksWellTyped ==
  \A i \in 1..Len(Extracted.blocks) :
    Extracted.blocks[i].uid.k = "str" /\ Extracted.blocks[i].data.k = "obj"

\* C19: parseUICPContent starts a load for exactly the blocks whose uid has a
\* definition and no registered renderer, all of them at once; it returns
\* nothing while a load is awaited, and when it reassembles every one of its
\* loads has completed and every defined uid has its renderer
C19_LoadFanOut ==
  [][LET blocks == extractUICPBlocks(content).blocks
         started == aLoads' \ aLoads
     IN /\ (apc = "idle" /\ apc' = "loading") =>
             /\ {l.block : l \in started} =
                  {i \in 1..Len(blocks) :
                     /\ ~UnknownUid(blocks[i], definitions)
                     /\ blocks[i].uid.s \notin registry}
             /\ \A l \in started : l.live /\ l.uid = blocks[l.block].uid.s
             /\ Cardinality(started) = Cardinality({l.block : l \in started})
        /\ apc' = "loading" => aParsed' = NoResult
        /\ (apc = "loading" /\ apc' = "done" /\ ~aParsed'.raised) =>
             /\ \A l \in aLoads : ~l.live
             /\ \A i \in 1..Len(blocks) :
                  ~UnknownUid(blocks[i], definitions) => blocks[i].uid.s \in registry]_vars

\* C19 witness: the loads of two blocks are awaited together
C19_Witness ==
  /\ apc = "loading"
  /\ Cardinality({l \in aLoads : l.live}) = 2

-----------------------------------------------------------------------------
(* Properties of the synchronous parse, keys and blocks (checked under     *)
(* Spec)                                                                   *)

\* a block of the result in `parsed` is shown as the missing-renderer box
ShowsMissing(res) ==
  \E i \in 1..Len(res.segs) : res.segs[i].artifact.art = "missing"

\* C21: a call of parseUICPContentSync starts no renderer load and no
\* definitions load, and leaves the component registry and both definitions
\* caches as they are, whatever the content, also when a block's renderer is
\* not registered
C21_SyncLoadsNothing ==
  [][(StreamToken \/ \E tok \in TextTokens : WriteText(tok)) =>
       /\ parsed' = parseUICPContentSync(content', definitions, registry)
       /\ aLoads' = aLoads
       /\ registry' = registry
       /\ inflight' = inflight
       /\ parserCache' = parserCache
       /\ toolsCache' = toolsCache]_vars

\* C21 witness: the content holds a valid block of a defined uid with no
\* renderer, the parse shows the missing-renderer box, and nothing is loading
C21_Witness ==
  /\ Len(Extracted.blocks) > 0
  /\ ShowsMissing(parsed)
  /\ aLoads = {} /\ registry = {} /\ inflight = <<>>
  /\ \A k \in SourceKeys : ~parserCache[k].has

\* the keys of a result, in order
KeysOf(res) == [i \in 1..Len(res.segs) |-> res.segs[i].key]

\* C22: the keys of a parse result are deterministic and derived from
\* position: parsing the same content again gives the same keys, every
\* component segment has the key component-<i> of the block it renders, i
\* being the block's index in extraction order, and no two segments of a
\* result have the same key
C22_KeysPositional ==
  ~parsed.raised =>
    /\ KeysOf(parsed) = KeysOf(parseUICPContentSync(content, definitions, registry))
    /\ \A i \in 1..Len(parsed.segs) :
         parsed.segs[i].type = "component" =>
           /\ parsed.segs[i].key.kind = "component"
           /\ parsed.segs[i].key.n < Len(Extracted.blocks)
           /\ parsed.segs[i].artifact.uid =
                Extracted.blocks[parsed.segs[i].key.n + 1].uid
    /\ \A i, j \in 1..Len(parsed.segs) :
         i # j => parsed.segs[i].key # parsed.segs[j].key

\* the segments of a result that show block b (counted from 0)
SegmentsOf(res, b) ==
  {i \in 1..Len(res.segs) :
     res.segs[i].type = "component" /\ res.segs[i].key.n = b}

\* C26: the component segments of a parse result correspond one-to-one with
\* the extracted blocks: every block has exactly one component segment and
\* every component segment is the segment of a block, also after a malformed
\* or unterminated region and with a placeholder word in the text
C26_OneSegmentPerBlock ==
  ~parsed.raised =>
    /\ \A b \in 0..(Len(Extracted.blocks) - 1) :
         Cardinality(SegmentsOf(parsed, b)) = 1
    /\ \A i \in 1..Len(parsed.segs) :
         parsed.segs[i].type = "component" =>
           parsed.segs[i].key.n < Len(Extracted.blocks)

\* C28: one pass of parseUICPContent invokes loadComponent at most once for
\* each distinct uid, also when several blocks carry the same defined uid
\* that has no renderer yet
C28_OneLoadPerUid ==
  [][parseUICPContentStart =>
       \A l1, l2 \in aLoads' \ aLoads : l1.uid = l2.uid => l1 = l2]_vars

\* p is a prefix of s
IsPrefix(p, s) == Len(p) <= Len(s) /\ SubSeq(s, 1, Len(p)) = p

\* C29: while text streams in, the blocks extracted from the text received
\* so far are a prefix, in order and content, of the blocks extracted from
\* any longer text: component-<i> names the same block at every re-render
C29_BlocksPrefixStable ==
  [][IsPrefix(content, content') =>
       IsPrefix(extractUICPBlocks(content).blocks,
                extractUICPBlocks(content').blocks)]_vars

\* C29 witness: a second block has completed after text that already held
\* a block, and the first one kept its index
C29_Witness ==
  /\ Len(Extracted.blocks) = 2
  /\ pending = <<>>
  /\ \E n \in 1..(Len(content) - 1) :
       extractUICPBlocks(SubSeq(content, 1, n)).blocks = <<Extracted.blocks[1]>>

\* C30: a block that createUIComponent returns with success = true is, once
\* extracted from the text, accepted by validateUICPBlock against the same
\* Definitions
C30_CreatedBlockValid ==
  [][(\E params \in ParamsSet : WriteCreatedBlock(params)) =>
       LET x == extractUICPBlocks(pending')
       IN /\ Len(x.blocks) = 1
          /\ ~validateUICPBlock(x.blocks[1], definitions).raised
          /\ validateUICPBlock(x.blocks[1], definitions).valid]_vars

-----------------------------------------------------------------------------
(* Properties of the React hosts (checked under SpecContent and            *)
(* FairSpecContent)                                                        *)

\* the host is mounted: its last effect has not been cleaned up
Mounted == effects # <<>> /\ effects[Len(effects)].mounted

\* the blocks of the content that pass validation (their uid is defined)
ValidBlocks ==
  {i \in 1..Len(Extracted.blocks) :
     /\ ~validateUICPBlock(Extracted.blocks[i], definitions).raised
     /\ validateUICPBlock(Extracted.blocks[i], definitions).valid}

\* a mounted UICPContent shows content with a valid block
HoldsValidBlock == host = "UICPContent" /\ Mounted /\ ValidBlocks # {}

\* ... whose renderer has not been registered
NeedsRenderer ==
  /\ HoldsValidBlock
  /\ \E i \in ValidBlocks : ~getComponent(registry, Extracted.blocks[i].uid)

\* every valid block of the content is shown as its resolved component
RenderedResolved ==
  \A i \in ValidBlocks :
    \E n \in 1..Len(parsed.segs) :
      /\ parsed.segs[n].key = Key("component", i - 1)
      /\ parsed.segs[n].artifact.art = "component"

\* C23: when UICPContent renders content with a valid block whose uid is
\* defined and whose renderer is not registered, the renderer is loaded and
\* registered and the block is eventually shown as the resolved component
\* (unless the content is replaced or the host unmounted before)
C23_LoadsAutomatically ==
  NeedsRenderer ~> (RenderedResolved \/ ~HoldsValidBlock)

\* C24: cleaning an effect up does not cancel its definitions load: the load
\* stays in flight until it settles, a load that resolves for an abandoned
\* effect still writes the cache entry, and the abandoned effect writes none
\* of parsed / definitions, error and isLoading
C24_AbandonedLoadCompletes ==
  [][\A i \in 1..MaxEffects :
       /\ (DefinitionsLoaded(i) /\ ~effects[i].mounted) =>
            /\ parserCache'[effects[i].source.key] =
                 Entry(source[effects[i].source.key], now)
            /\ UNCHANGED <<parsed, defsState, error, isLoading>>
       /\ (DefinitionsFailed(i) /\ ~effects[i].mounted) =>
            UNCHANGED <<parsed, defsState, error, isLoading>>
       /\ (i <= Len(effects) /\ effects[i].awaiting) =>
            \/ effects'[i].awaiting
            \/ DefinitionsLoaded(i)
            \/ DefinitionsFailed(i)]_vars

\* C24 witness: the first effect of UICPContent was cleaned up while its load
\* was in flight (isLoading is still as it left it), and its load has
\* resolved since and written the cache entry
C24_Witness ==
  /\ host = "UICPContent" /\ Len(effects) = 2
  /\ ~effects[1].mounted /\ ~effects[1].awaiting /\ effects[1].returned.has
  /\ effects[2].mounted /\ ~hasUICPBlocks(effects[2].content)
  /\ isLoading
  /\ parserCache["k1"] = Entry(effects[1].returned.version, now)

\* C25: for a mounted UICPContent, whatever the changes of content and
\* definitions, isLoading is true only while the parse that the current
\* effect started awaits its definitions: with no load pending for the
\* current props, isLoading is false
C25_LoadingOnlyWhilePending ==
  (host = "UICPContent" /\ Mounted /\ isLoading) =>
    effects[Len(effects)].awaiting

\* the calls of loadDefinitionsWithCache for the source of effect i that
\* started after it and have returned
LaterReturned(i) ==
  {j \in (i + 1)..Len(effects) :
     /\ effects[j].source = effects[i].source
     /\ ~effects[j].awaiting /\ effects[j].returned.has}

\* C27: when two loadDefinitionsWithCache calls for one key overlap, the
\* cache entry holds, once both have completed, the data returned by the
\* call that started later: a load that started earlier does not overwrite
\* the result of one that started after it
C27_LaterLoadWins ==
  [][\A i \in 1..MaxEffects :
       (DefinitionsLoaded(i) /\ LaterReturned(i) # {}) =>
         parserCache'[effects[i].source.key].data =
           effects[Max(LaterReturned(i))].returned.version]_vars

====
